---- MODULE Spec2Model ----
(***************************************************************************)
(* WampyTube (src/wampytube.py): stream selection, the download worker     *)
(* thread and the ffmpeg merge step of WampyTubeApp, as a state machine.   *)
(***************************************************************************)
EXTENDS Integers, Sequences, FiniteSets, TLC

\* ------------------------------------------------------------------ bounds
\* Largest number of streams in a catalog handed to the selector.
MaxCatalog == 4
\* Largest number of clicks on the Download button.
MaxJobs == 2
\* Largest number of analyze_url runs.
MaxAnalyze == 1
\* Largest number of edits the user makes to the fields and selectors by hand.
MaxEdits == 1

\* ------------------------------------------------------------------ state
VARIABLES
    MACOS_GPU,          \* the record check_macos_gpu() returned at import
    streams_of,         \* YouTube(url).streams of each URL
    url_entry,          \* the URL field: 0 (empty), Blank or a URL
    output_entry,       \* the output folder field: 0 (empty), Blank or Folder
    quality_selector,   \* the text shown by the quality combo box
    quality_values,     \* its drop-down values
    audio_selector,     \* the text shown by the audio combo box
    audio_values,       \* its drop-down values
    available_streams,  \* label -> [type, stream], set by populate_quality_options
    available_audio,    \* label -> stream, set by populate_audio_options
    download_button,    \* "normal" or "disabled"
    status_label,       \* the text of the status label
    progress_bar,       \* the percentage shown by the progress bar
    log_text,           \* the last line of the activity log
    ui_pc,              \* where the UI thread is inside analyze_url
    ui_yt,              \* the yt of the running analyze_url
    job,                \* the download_in_thread worker
    after_queue,        \* callbacks posted with self.after(0, ...)
    disk,               \* the files in the output folder
    jobs_started,       \* worker threads started so far
    analyses,           \* analyze_url runs so far
    edits,              \* edits made by hand so far
    selections,         \* the selections computed so far, with their catalog
    catalog_in,         \* the catalog handed to the selector on its own
    result_out,         \* what the selector returned for it
    progress_in,        \* the stream.filesize and bytes_remaining of a transfer on its own
    progress_out,       \* what on_download_progress made of them
    path_in,            \* the file name of a video on its own, without its suffix
    path_out            \* the temporary and final paths download_in_thread made of it

vars ==
    << path_in, path_out, progress_in, progress_out, MACOS_GPU, progress_bar, streams_of, url_entry, output_entry, quality_selector, quality_values,
       audio_selector, audio_values, available_streams, available_audio,
       download_button, status_label, log_text, ui_pc, ui_yt, job, after_queue,
       disk, jobs_started, analyses, edits, selections, catalog_in, result_out >>

\* ------------------------------------------------------------------ streams
\* pytubefix Stream objects as the code reads them: resolution ("720p") and
\* abr ("128kbps") are kept as their integer parts, 0 standing for None.
\* lang and avg are the languageCode and averageBitrate // 1000 of the stream's
\* entry in vid_info['streamingData']['adaptiveFormats'] ("none", 0 when absent).
None ==
    [vid |-> 0, itag |-> 0, type |-> "none", ext |-> "none", res |-> 0, abr |-> 0,
     lang |-> "none", avg |-> 0]

Stream(i, t, e, r, a, l, g) ==
    [vid |-> 0, itag |-> i, type |-> t, ext |-> e, res |-> r, abr |-> a, lang |-> l, avg |-> g]

\* Every stream a video may offer, in the order the library lists them.
Universe ==
    << Stream(1, "progressive", "mp4", 480, 0, "none", 0),
       Stream(2, "progressive", "mp4", 720, 0, "none", 0),
       Stream(3, "progressive", "mp4", 1080, 0, "none", 0),
       Stream(4, "video", "mp4", 1080, 0, "none", 0),
       Stream(5, "video", "mp4", 2160, 0, "none", 0),
       Stream(6, "video", "webm", 2160, 0, "none", 0),
       Stream(7, "audio", "mp4", 0, 48, "none", 49),
       Stream(8, "audio", "mp4", 0, 128, "none", 129),
       Stream(9, "audio", "webm", 0, 160, "es", 128) >>

Itags == 1..Len(Universe)

\* yt.streams of a video offering the streams with itags S, tagged with the video.
CatalogOf(S, v) ==
    LET pick == SelectSeq(Universe, LAMBDA s : s.itag \in S)
    IN  [i \in 1..Len(pick) |-> [pick[i] EXCEPT !.vid = v]]

Catalogs == { CatalogOf(S, 1) : S \in { T \in SUBSET Itags : Cardinality(T) <= MaxCatalog } }

\* ------------------------------------------------------------------ StreamQuery
Attr(s, name) == IF name = "resolution" THEN s.res ELSE s.abr

\* StreamQuery.filter(progressive=True, file_extension="mp4")
filter_progressive(q) == SelectSeq(q, LAMBDA s : s.type = "progressive" /\ s.ext = "mp4")

\* StreamQuery.filter(adaptive=True, file_extension="mp4", only_video=True)
filter_adaptive_video(q) == SelectSeq(q, LAMBDA s : s.type = "video" /\ s.ext = "mp4")

\* StreamQuery.filter(only_audio=True, file_extension="mp4")
filter_audio(q) == SelectSeq(q, LAMBDA s : s.type = "audio" /\ s.ext = "mp4")

RECURSIVE InsertSorted(_, _, _)
InsertSorted(s, sorted, name) ==
    IF sorted = << >> THEN << s >>
    ELSE IF Attr(s, name) < Attr(Head(sorted), name)
         THEN << s >> \o sorted
         ELSE << Head(sorted) >> \o InsertSorted(s, Tail(sorted), name)

RECURSIVE SortAsc(_, _)
SortAsc(q, name) ==
    IF q = << >> THEN << >>
    ELSE InsertSorted(q[Len(q)], SortAsc(SubSeq(q, 1, Len(q) - 1), name), name)

\* StreamQuery.order_by(name): drops the streams whose attribute is None, then a
\* stable ascending sort on the integer part of the attribute.
order_by(q, name) == SortAsc(SelectSeq(q, LAMBDA s : Attr(s, name) # 0), name)

\* desc() left out: the query stays in ascending order.
desc_missing(q) == q

\* StreamQuery.desc()
desc(q) == [i \in 1..Len(q) |-> q[Len(q) + 1 - i]]

\* StreamQuery.first()
first(q) == IF q = << >> THEN None ELSE q[1]

\* StreamQuery.get_highest_resolution(): order_by("resolution").last() of the
\* progressive streams.
get_highest_resolution(q) ==
    LET s == order_by(SelectSeq(q, LAMBDA x : x.type = "progressive"), "resolution")
    IN  IF s = << >> THEN None ELSE s[Len(s)]

\* ------------------------------------------------------------------ selector
Selection(v, a, m) == [video |-> v, audio |-> a, needs_merge |-> m]

\* The resolution below which the fallback selector looks for an adaptive pair.
Threshold == 1080

\* yt.streams.filter(progressive=True, file_extension="mp4").order_by("resolution").desc()
fallback_streams(yt) == desc(order_by(filter_progressive(yt), "resolution"))

\* int(best_progressive.resolution[:-1]) if best_progressive else 0
progressive_resolution(best_progressive) ==
    IF best_progressive # None THEN best_progressive.res ELSE 0

\* The adaptive video and the audio stream the fallback looks up.
fallback_video(yt) == first(desc(order_by(filter_adaptive_video(yt), "resolution")))

fallback_audio(yt) == first(desc(order_by(filter_audio(yt), "abr")))

\* The threshold test written <= instead of <.
get_best_streams_fallback_at_most(yt) ==
    LET streams == fallback_streams(yt)
        best_progressive == first(streams)
        video_stream == fallback_video(yt)
        audio_stream == fallback_audio(yt)
    IN  IF streams = << >> THEN Selection(None, None, FALSE)
        ELSE IF /\ progressive_resolution(best_progressive) <= Threshold
                /\ video_stream # None
                /\ audio_stream # None
             THEN Selection(video_stream, audio_stream, TRUE)
             ELSE Selection(best_progressive, None, FALSE)

\* The pair test written "video_stream or audio_stream".
get_best_streams_fallback_either(yt) ==
    LET streams == fallback_streams(yt)
        best_progressive == first(streams)
        video_stream == fallback_video(yt)
        audio_stream == fallback_audio(yt)
    IN  IF streams = << >> THEN Selection(None, None, FALSE)
        ELSE IF /\ progressive_resolution(best_progressive) < Threshold
                /\ (video_stream # None \/ audio_stream # None)
             THEN Selection(video_stream, audio_stream, TRUE)
             ELSE Selection(best_progressive, None, FALSE)

\* The fallback looking into the cached stream map before the catalog.
get_best_streams_fallback_cached(yt) ==
    LET streams == fallback_streams(yt)
        best_progressive == first(streams)
        video_stream == fallback_video(yt)
        audio_stream == fallback_audio(yt)
    IN  IF quality_selector \in DOMAIN available_streams
        THEN Selection(available_streams[quality_selector].stream, None, FALSE)
        ELSE IF streams = << >> THEN Selection(None, None, FALSE)
        ELSE IF /\ progressive_resolution(best_progressive) < Threshold
                /\ video_stream # None
                /\ audio_stream # None
             THEN Selection(video_stream, audio_stream, TRUE)
             ELSE Selection(best_progressive, None, FALSE)

get_best_streams_fallback(yt) ==
    LET streams == fallback_streams(yt)
        best_progressive == first(streams)
        video_stream == fallback_video(yt)
        audio_stream == fallback_audio(yt)
    IN  IF streams = << >> THEN Selection(None, None, FALSE)
        ELSE IF /\ progressive_resolution(best_progressive) < Threshold
                /\ video_stream # None
                /\ audio_stream # None
             THEN Selection(video_stream, audio_stream, TRUE)
             ELSE Selection(best_progressive, None, FALSE)

\* ------------------------------------------------------------------ labels
\* The texts of the quality selector: "<res>p (Progressive)", "<res>p (Best
\* Quality)", the placeholder "Best Available", and the text a CTkComboBox
\* shows before any value is set.
QLabel(r, k) == [res |-> r, kind |-> k]

BestAvailable == QLabel(0, "Best Available")

QComboDefault == QLabel(0, "CTkComboBox")

\* The texts of the audio selector: "<Language> (<n>kbps)", "Alternative <i>
\* (<n>kbps)", the placeholder "Default Audio" and the CTkComboBox default.
ALabel(nm, i, a) == [name |-> nm, n |-> i, abr |-> a]

DefaultAudio == ALabel("Default Audio", 0, 0)

AComboDefault == ALabel("CTkComboBox", 0, 0)

\* The entries of language_names the modelled videos use.
language_names == [l \in {"en", "es"} |-> IF l = "en" THEN "English" ELSE "Spanish"]

\* detect_video_language: 'es' when the title or description holds a Spanish
\* keyword, 'en' otherwise; the second video is the one with such a keyword.
detect_video_language(v) == IF v = 2 THEN "es" ELSE "en"

Max(S) == CHOOSE x \in S : \A y \in S : y <= x

\* The value a dict built by "for stream in q: d[key(stream)] = stream" holds
\* for the key of resolution r: the last stream of q with that resolution.
LastWithRes(q, r) == q[Max({ i \in 1..Len(q) : q[i].res = r })]

\* ------------------------------------------------------------------ populate_quality_options
progressive_streams(yt) == desc(order_by(filter_progressive(yt), "resolution"))

adaptive_streams(yt) == desc(order_by(filter_adaptive_video(yt), "resolution"))

\* resolutions: the set of res_key strings.
resolutions(yt) ==
    { QLabel(progressive_streams(yt)[i].res, "Progressive") : i \in 1..Len(progressive_streams(yt)) }
    \cup { QLabel(adaptive_streams(yt)[i].res, "Best Quality") : i \in 1..Len(adaptive_streams(yt)) }

stream_map(yt) ==
    [ l \in resolutions(yt) |->
        IF l.kind = "Progressive"
        THEN [type |-> "progressive", stream |-> LastWithRes(progressive_streams(yt), l.res)]
        ELSE [type |-> "adaptive", stream |-> LastWithRes(adaptive_streams(yt), l.res)] ]

\* sorted_resolutions[0]: sorted() is stable over list(set), whose order is the
\* set's iteration order, so any label of the highest resolution can come first.
TopResolutions(yt) ==
    { l \in resolutions(yt) : \A m \in resolutions(yt) : m.res <= l.res }

\* ------------------------------------------------------------------ populate_audio_options
\* quality_str in stream.abr, for quality_str = "<q>kbps" and abr = "<a>kbps":
\* the digits of q end the digits of a ("Unknown", q = 0, is in no abr).
AbrContains(a, q) ==
    /\ q > 0
    /\ a > 0
    /\ \E k \in {10, 100, 1000, 10000} : q < k /\ q * 10 >= k /\ a % k = q

\* The adaptiveFormats whose mimeType starts with audio/.
audio_formats(yt) == SelectSeq(yt, LAMBDA s : s.type = "audio")

OptionLabels(opts) == { opts[i].label : i \in 1..Len(opts) }

\* The loop over adaptive_formats (language info from the video metadata).
RECURSIVE MetadataOptions(_, _, _)
MetadataOptions(fmts, yt, acc) ==
    IF fmts = << >> THEN acc
    ELSE LET fmt == Head(fmts)
             audio_streams == filter_audio(yt)
             matches == SelectSeq(audio_streams, LAMBDA s : AbrContains(s.abr, fmt.avg))
             matching_stream ==
                 IF matches # << >> THEN matches[1]
                 ELSE first(desc(order_by(audio_streams, "abr")))
             known == fmt.lang \in DOMAIN language_names
             label == ALabel(IF known THEN language_names[fmt.lang] ELSE "none", 0, fmt.avg)
             add == known /\ matching_stream # None /\ label \notin OptionLabels(acc)
         IN  MetadataOptions(Tail(fmts), yt,
                 IF add THEN Append(acc, [label |-> label, stream |-> matching_stream]) ELSE acc)

\* The fallback loop over the three best mp4 audio streams.
StreamOptions(yt, v) ==
    LET audio_streams == desc(order_by(filter_audio(yt), "abr"))
        top == SubSeq(audio_streams, 1, IF Len(audio_streams) < 3 THEN Len(audio_streams) ELSE 3)
    IN  [ i \in 1..Len(top) |->
            [label |-> IF i = 1
                       THEN ALabel(language_names[detect_video_language(v)], 0, top[i].abr)
                       ELSE ALabel("Alternative", i - 1, top[i].abr),
             stream |-> top[i]] ]

\* audio_options with the stream of each label, in the order of the list.
audio_options(yt, v) ==
    LET meta == MetadataOptions(audio_formats(yt), yt, << >>)
    IN  IF meta # << >> THEN meta ELSE StreamOptions(yt, v)

audio_map(opts) ==
    [ l \in OptionLabels(opts) |-> opts[Max({ i \in 1..Len(opts) : opts[i].label = l })].stream ]

\* ------------------------------------------------------------------ videos
\* The videos a URL can name; 0 is the empty URL field.
Urls == {1, 2}

\* The itags of the videos the application is run on: the first URL names any
\* of these videos, the second one of the first two.
VideoItags == << {}, {2, 5, 7, 8}, {3, 4, 7, 9}, {4, 8}, {5, 9} >>

VideoPairs ==
    { f \in [Urls -> { VideoItags[i] : i \in 1..Len(VideoItags) }] :
        f[2] \in {VideoItags[1], VideoItags[2]} }

\* check_macos_gpu(): system_profiler could not be run ("raised"), named no
\* known GPU ("unknown") or named one ("gpu").
check_macos_gpu(outcome) ==
    IF outcome = "raised"
    THEN [available |-> FALSE, hevc_encoding |-> FALSE, videotoolbox |-> FALSE]
    ELSE [available |-> outcome = "gpu", hevc_encoding |-> outcome = "gpu",
          videotoolbox |-> TRUE]

\* The machines the application is run on: every pair of videos where a GPU
\* is found, the richest pair where none is.
Machines ==
    { [streams |-> f, gpu |-> check_macos_gpu(o)] :
        f \in VideoPairs, o \in {"raised", "unknown", "gpu"} }
    \ { m \in [streams : VideoPairs,
                gpu : {check_macos_gpu("raised"), check_macos_gpu("unknown")}] :
            m.streams[1] # VideoItags[2] \/ m.streams[2] # VideoItags[1] }

NoSelection == Selection(None, None, FALSE)

\* result_out before the selector has been called.
NotCalled == [called |-> FALSE, sel |-> NoSelection]

\* YouTube(url).streams
streams(u) == CatalogOf(streams_of[u], u)

\* The returncode of a process that has not exited.
NoExit == 0 - 1

\* A worker thread that has not been started: touched holds the widgets the
\* thread has read or written itself, posted the callbacks it has handed to
\* self.after, error the exception that took it to the except clause,
\* at_click what the selectors and the cached maps stood for when the thread
\* was started.
IdleJob ==
    [pc |-> "idle", url |-> 0, yt |-> 0, sel |-> NoSelection, via |-> "none",
     video_ok |-> FALSE, audio_ok |-> FALSE, encoders |-> << >>, merge |-> "none",
     removed |-> {}, outcome |-> "none", selects |-> 0, fetches |-> 0,
     spawned |-> FALSE, returncode |-> NoExit, error |-> "none",
     on_progress |-> [video |-> FALSE, audio |-> FALSE],
     touched |-> {}, posted |-> << >>, at_click |-> NoSelection]

\* ------------------------------------------------------------------ get_selected_streams
\* raises: an exception inside the try block, which hands the selection to
\* get_best_streams_fallback.
\* The selection ignored: the best progressive stream whatever the label.
get_selected_streams_best(yt, raises) ==
    IF raises THEN get_best_streams_fallback(yt)
    ELSE Selection(get_highest_resolution(yt), None, FALSE)

get_selected_streams(yt, raises) ==
    IF raises THEN get_best_streams_fallback(yt)
    ELSE LET selected_quality == quality_selector
             selected_audio == audio_selector
             cached == selected_quality \in DOMAIN available_streams
             video_stream ==
                 IF cached THEN available_streams[selected_quality].stream
                 ELSE get_highest_resolution(yt)
             adaptive == cached /\ available_streams[selected_quality].type = "adaptive"
             with_audio == adaptive \/ selected_quality = BestAvailable
             audio_stream ==
                 IF ~with_audio THEN None
                 ELSE IF selected_audio \in DOMAIN available_audio
                      THEN available_audio[selected_audio]
                      ELSE first(desc(order_by(filter_audio(yt), "abr")))
         IN  Selection(video_stream, audio_stream, with_audio)

\* ------------------------------------------------------------------ on_download_progress
\* A percentage is kept as the fraction num / den it is the float of.
Fraction(n, d) == [num |-> n, den |-> d]

\* No transfer is being followed.
NoTransfer == [filesize |-> 0, bytes_remaining |-> 0]

\* progress_out before the callback has been called.
NoProgress ==
    [calls |-> 0, raised |-> FALSE, percentage |-> Fraction(0, 1), previous |-> Fraction(0, 1)]

\* percentage = (bytes_downloaded / total_size) * 100, a ZeroDivisionError
\* when total_size is 0.
on_download_progress(total_size, bytes_remaining) ==
    LET bytes_downloaded == total_size - bytes_remaining
    IN  IF total_size = 0
        THEN [raised |-> TRUE, percentage |-> Fraction(0, 1)]
        ELSE [raised |-> FALSE, percentage |-> Fraction(bytes_downloaded * 100, total_size)]

\* ------------------------------------------------------------------ paths
\* A file name is the sequence of its pieces: the text 'video_', the text
\* 'audio_', the text '_HEVC' and a text "x" holding none of them. No piece
\* begins another and 'video_' begins only where a piece 'video_' does, so two
\* names are the same string exactly when they are the same sequence.
Pieces == {"video_", "audio_", "_HEVC", "x"}

\* A path: its directory, the stem of its name and its suffix.
PathOf(d, st, sfx) == [parent |-> d, stem |-> st, suffix |-> sfx]

\* Stream.download(output_folder, filename_prefix=prefix) of a stream whose
\* default file name is name + ".mp4".
download(output_folder, prefix, name) == PathOf(output_folder, << prefix >> \o name, ".mp4")

\* str.replace(old, ''): every occurrence of old is removed.
replace(st, old) == SelectSeq(st, LAMBDA piece : piece # old)

\* Path(video_path).parent / f"{Path(video_path).stem.replace('video_', '')}_HEVC.mp4"
merged_path(video) == PathOf(video.parent, replace(video.stem, "video_") \o << "_HEVC" >>, ".mp4")

\* path_out before the paths have been computed.
NoPaths ==
    [called |-> FALSE, video_path |-> PathOf("none", << >>, "none"),
     audio_path |-> PathOf("none", << >>, "none"),
     final_path |-> PathOf("none", << >>, "none")]

\* ------------------------------------------------------------------ files
\* Stream.download(output_folder, filename_prefix=p): p + the file name of the
\* stream's video.
FileOf(p, s) == << p, s.vid >>

video_path(j) == FileOf("video_", j.sel.video)

audio_path(j) == FileOf("audio_", j.sel.audio)

\* Path(video_path).parent / f"{stem.replace('video_', '')}_HEVC.mp4"
final_path(j) == FileOf("_HEVC.mp4", j.sel.video)

\* ------------------------------------------------------------------ text fields
\* A text made of white space only.
Blank == 0 - 1

\* The folder the output field names (Path.home() / "Downloads" at start).
Folder == 1

\* str.strip(): a text of white space becomes the empty text.
strip(text) == IF text = Blank THEN 0 ELSE text

\* ------------------------------------------------------------------ Init
InitApp ==
    /\ url_entry = 0
    /\ output_entry = Folder
    /\ quality_selector = QComboDefault
    /\ quality_values = {QComboDefault}
    /\ audio_selector = AComboDefault
    /\ audio_values = {AComboDefault}
    /\ available_streams = << >>
    /\ available_audio = << >>
    /\ download_button = "normal"
    /\ status_label = "Ready to download"
    /\ progress_bar = 0
    /\ log_text = "info: FFmpeg"
    /\ ui_pc = "idle"
    /\ ui_yt = 0
    /\ job = IdleJob
    /\ after_queue = << >>
    /\ disk = {}
    /\ jobs_started = 0
    /\ analyses = 0
    /\ edits = 0
    /\ selections = {}

Init ==
    /\ InitApp
    /\ \E m \in Machines : streams_of = m.streams /\ MACOS_GPU = m.gpu
    /\ catalog_in = << >>
    /\ result_out = NotCalled
    /\ progress_in = NoTransfer
    /\ progress_out = NoProgress
    /\ path_in = << >>
    /\ path_out = NoPaths

\* ------------------------------------------------------------------ the user
\* The user edits the URL field.
TypeUrl(u) ==
    /\ ui_pc = "idle"
    /\ edits < MaxEdits
    /\ url_entry # u
    /\ url_entry' = u
    /\ edits' = edits + 1
    /\ UNCHANGED << path_in, path_out, progress_in, progress_out, MACOS_GPU, progress_bar, streams_of, output_entry, quality_selector, quality_values,
                    audio_selector, audio_values, available_streams, available_audio,
                    download_button, status_label, log_text, ui_pc, ui_yt, job,
                    after_queue, disk, jobs_started, analyses, selections,
                    catalog_in, result_out >>

\* The user edits the output folder field or picks a folder (select_output_folder).
SetOutput(b) ==
    /\ ui_pc = "idle"
    /\ edits < MaxEdits
    /\ output_entry # b
    /\ output_entry' = b
    /\ edits' = edits + 1
    /\ UNCHANGED << path_in, path_out, progress_in, progress_out, MACOS_GPU, progress_bar, streams_of, url_entry, quality_selector, quality_values,
                    audio_selector, audio_values, available_streams, available_audio,
                    download_button, status_label, log_text, ui_pc, ui_yt, job,
                    after_queue, disk, jobs_started, analyses, selections,
                    catalog_in, result_out >>

\* The user picks a value of the read-only quality combo box.
SelectQuality(l) ==
    /\ ui_pc = "idle"
    /\ edits < MaxEdits
    /\ l \in quality_values
    /\ quality_selector # l
    /\ quality_selector' = l
    /\ edits' = edits + 1
    /\ UNCHANGED << path_in, path_out, progress_in, progress_out, MACOS_GPU, progress_bar, streams_of, url_entry, output_entry, quality_values,
                    audio_selector, audio_values, available_streams, available_audio,
                    download_button, status_label, log_text, ui_pc, ui_yt, job,
                    after_queue, disk, jobs_started, analyses, selections,
                    catalog_in, result_out >>

\* The user picks a value of the read-only audio combo box.
SelectAudio(l) ==
    /\ ui_pc = "idle"
    /\ edits < MaxEdits
    /\ l \in audio_values
    /\ audio_selector # l
    /\ audio_selector' = l
    /\ edits' = edits + 1
    /\ UNCHANGED << path_in, path_out, progress_in, progress_out, MACOS_GPU, progress_bar, streams_of, url_entry, output_entry, quality_selector,
                    quality_values, audio_values, available_streams, available_audio,
                    download_button, status_label, log_text, ui_pc, ui_yt, job,
                    after_queue, disk, jobs_started, analyses, selections,
                    catalog_in, result_out >>

\* ------------------------------------------------------------------ analyze_url
\* paste_from_clipboard with a YouTube URL on the clipboard: the URL field is
\* set and analyze_url runs up to the end of populate_quality_options.
\* yt_ok: YouTube(url) and check_availability() did not raise;
\* q_ok: populate_quality_options did not raise.
paste_from_clipboard(u, yt_ok, q_ok) ==
    /\ ui_pc = "idle"
    /\ analyses < MaxAnalyze
    /\ analyses' = analyses + 1
    /\ url_entry' = u
    /\ IF ~yt_ok
       THEN /\ log_text' = "error: Failed to analyze URL"
            /\ UNCHANGED << quality_selector, quality_values, available_streams, ui_pc, ui_yt >>
       ELSE /\ ui_pc' = "populate_audio_options"
            /\ ui_yt' = u
            /\ IF ~q_ok
               THEN /\ log_text' = "error: Error getting quality options"
                    /\ quality_values' = {BestAvailable}
                    /\ quality_selector' = BestAvailable
                    /\ UNCHANGED available_streams
               ELSE /\ quality_values' = resolutions(streams(u))
                    /\ IF resolutions(streams(u)) # {}
                       THEN quality_selector' \in TopResolutions(streams(u))
                       ELSE UNCHANGED quality_selector
                    /\ available_streams' = stream_map(streams(u))
                    /\ log_text' = "info: Found quality options"
    /\ UNCHANGED << path_in, path_out, progress_in, progress_out, MACOS_GPU, progress_bar, streams_of, output_entry, audio_selector, audio_values,
                    available_audio, download_button, status_label, job, after_queue,
                    disk, jobs_started, edits, selections, catalog_in, result_out >>

\* The rest of analyze_url: populate_audio_options and the success message.
\* a_ok: populate_audio_options did not raise.
analyze_url_audio(a_ok) ==
    /\ ui_pc = "populate_audio_options"
    /\ ui_pc' = "idle"
    /\ ui_yt' = 0
    /\ log_text' = "success: Analyzed"
    /\ IF ~a_ok
       THEN /\ audio_values' = {DefaultAudio}
            /\ audio_selector' = DefaultAudio
            /\ UNCHANGED available_audio
       ELSE LET opts == audio_options(streams(ui_yt), ui_yt)
            IN  /\ audio_values' = OptionLabels(opts)
                /\ audio_selector' = IF opts # << >> THEN opts[1].label ELSE audio_selector
                /\ available_audio' = audio_map(opts)
    /\ UNCHANGED << path_in, path_out, progress_in, progress_out, MACOS_GPU, progress_bar, streams_of, url_entry, output_entry, quality_selector,
                    quality_values, available_streams, download_button, status_label,
                    job, after_queue, disk, jobs_started, analyses, edits, selections,
                    catalog_in, result_out >>

clear_url ==
    /\ ui_pc = "idle"
    /\ edits < MaxEdits
    /\ edits' = edits + 1
    /\ url_entry' = 0
    /\ quality_values' = {}
    /\ audio_values' = {}
    /\ available_streams' = << >>
    /\ available_audio' = << >>
    /\ UNCHANGED << path_in, path_out, progress_in, progress_out, MACOS_GPU, progress_bar, streams_of, output_entry, quality_selector, audio_selector,
                    download_button, status_label, log_text, ui_pc, ui_yt, job,
                    after_queue, disk, jobs_started, analyses, selections,
                    catalog_in, result_out >>

\* ------------------------------------------------------------------ download_video
\* The button left enabled while the worker runs.
download_video_enabled ==
    /\ ui_pc = "idle"
    /\ download_button = "normal"
    /\ jobs_started < MaxJobs
    /\ strip(url_entry) # 0
    /\ strip(output_entry) # 0
    /\ status_label' = "Downloading..."
    /\ job' = [IdleJob EXCEPT !.pc = "start", !.url = strip(url_entry)]
    /\ jobs_started' = jobs_started + 1
    /\ UNCHANGED << path_in, path_out, progress_in, progress_out, MACOS_GPU, progress_bar, streams_of, url_entry, output_entry,
                    quality_selector, quality_values, audio_selector, audio_values,
                    available_streams, available_audio, ui_pc, ui_yt, after_queue, disk,
                    analyses, edits, selections, catalog_in, result_out, log_text,
                    download_button >>

\* The test of the output folder left out.
download_video_unchecked ==
    /\ ui_pc = "idle"
    /\ download_button = "normal"
    /\ jobs_started < MaxJobs
    /\ IF strip(url_entry) = 0
       THEN /\ log_text' = "error: Please enter a valid URL"
            /\ UNCHANGED << download_button, status_label, job, jobs_started >>
       ELSE /\ download_button' = "disabled"
            /\ status_label' = "Downloading..."
            /\ job' = [IdleJob EXCEPT !.pc = "start", !.url = strip(url_entry)]
            /\ jobs_started' = jobs_started + 1
            /\ UNCHANGED log_text
    /\ UNCHANGED << path_in, path_out, progress_in, progress_out, MACOS_GPU, progress_bar,
                    streams_of, url_entry, output_entry, quality_selector,
                    quality_values, audio_selector, audio_values, available_streams,
                    available_audio, ui_pc, ui_yt, after_queue, disk, analyses, edits,
                    selections, catalog_in, result_out >>

\* A click on the Download button (a disabled button runs no command).
download_video ==
    /\ ui_pc = "idle"
    /\ download_button = "normal"
    /\ jobs_started < MaxJobs
    /\ LET url == strip(url_entry)
           output_folder == strip(output_entry)
       IN  IF url = 0
           THEN /\ log_text' = "error: Please enter a valid URL"
                /\ UNCHANGED << download_button, status_label, job, jobs_started >>
           ELSE IF output_folder = 0
           THEN /\ log_text' = "error: Please select an output folder"
                /\ UNCHANGED << download_button, status_label, job, jobs_started >>
           ELSE /\ download_button' = "disabled"
                /\ status_label' = "Downloading..."
                /\ job' = [IdleJob EXCEPT !.pc = "start", !.url = url,
                                          !.at_click = get_selected_streams(streams(url), FALSE)]
                /\ jobs_started' = jobs_started + 1
                /\ UNCHANGED log_text
    /\ UNCHANGED << path_in, path_out, progress_in, progress_out, MACOS_GPU, progress_bar, streams_of, url_entry, output_entry, quality_selector,
                    quality_values, audio_selector, audio_values, available_streams,
                    available_audio, ui_pc, ui_yt, after_queue, disk, analyses, edits,
                    selections, catalog_in, result_out >>

\* ------------------------------------------------------------------ download_in_thread
\* What every step of the worker leaves alone.
WorkerFrame ==
    UNCHANGED << path_in, path_out, progress_in, progress_out, MACOS_GPU, progress_bar, streams_of, url_entry, output_entry,
                 quality_selector, quality_values, audio_selector, audio_values,
                 available_streams, available_audio, download_button, status_label,
                 ui_pc, ui_yt, jobs_started, analyses, edits, catalog_in, result_out >>

\* self.after(0, cb) called by the worker j: cb joins the callbacks posted by j.
Posted(j, cbs) == [j EXCEPT !.posted = j.posted \o cbs]

\* self.log_message(...) called by the worker j itself: log_text.insert and
\* log_text.see run in the calling thread.
Logged(j) == [j EXCEPT !.touched = j.touched \cup {"log_text"}]

\* The exception e takes the worker j to the except clause.
Raised(j, e) == [j EXCEPT !.pc = "except", !.error = e]

\* What a finished Stream.download has made on_download_progress post: the
\* callback is the one of the YouTube object the stream was taken from, called
\* for every chunk; the update of the last chunk (bytes_remaining = 0) stands
\* for them all.
ProgressPosts(registered) == IF registered THEN << "progress" >> ELSE << >>

\* os.makedirs, YouTube(url, ...) and check_availability(). ok: none of them raised.
open_video(ok) ==
    /\ job.pc = "start"
    /\ job' = IF ok THEN Logged([job EXCEPT !.pc = "select", !.yt = job.url])
                    ELSE Logged(Raised(job, "YouTube"))
    /\ log_text' = IF ok THEN "info: Preparing selected streams"
                         ELSE "info: Starting download process"
    /\ UNCHANGED << after_queue, disk, selections >>
    /\ WorkerFrame

\* The test "if not video_stream" left out.
AfterSelection_unchecked(sel) ==
    IF sel.needs_merge THEN "download_video" ELSE "download_direct"

\* Where download_in_thread goes with the streams it got: the test of
\* video_stream, then the test of needs_merge.
AfterSelection(sel) ==
    IF sel.video = None THEN "except"
    ELSE IF sel.needs_merge THEN "download_video"
    ELSE "download_direct"

\* Whether the streams get_selected_streams returns belong to the YouTube
\* object of download_in_thread, created with on_progress_callback; the
\* streams of available_streams and available_audio belong to the object of
\* analyze_url, created without it.
progress_registered(raises) ==
    [video |-> raises \/ quality_selector \notin DOMAIN available_streams,
     audio |-> raises \/ audio_selector \notin DOMAIN available_audio]

\* The call of get_selected_streams and the test of its result.
\* outcome: "selected" (the try block returned), "fallback" (it raised and
\* get_best_streams_fallback returned), "raised" (the fallback raised as well).
\* The try block reads both selectors first, in the worker thread.
select_streams(outcome) ==
    /\ job.pc = "select"
    /\ IF outcome = "raised"
       THEN /\ job' = Logged(Raised([job EXCEPT !.selects = job.selects + 1,
                                                !.touched = job.touched \cup
                                                    {"quality_selector", "audio_selector"}],
                                    "streams"))
            /\ log_text' = "warning: Error getting selected streams"
            /\ UNCHANGED << after_queue, selections >>
       ELSE LET sel == get_selected_streams(streams(job.yt), outcome = "fallback")
                pc == AfterSelection(sel)
                got == [job EXCEPT !.pc = pc, !.sel = sel, !.via = outcome,
                                   !.selects = job.selects + 1,
                                   !.fetches = IF pc = "except" THEN 0 ELSE 1,
                                   !.on_progress = progress_registered(outcome = "fallback"),
                                   !.error = IF pc = "except" THEN "No suitable stream found"
                                             ELSE job.error,
                                   !.touched = job.touched \cup
                                       {"quality_selector", "audio_selector"}]
                logs == sel.video # None \/ outcome = "fallback"
                posts == IF pc = "download_video" THEN << "Downloading video..." >> ELSE << >>
            IN  /\ selections' = selections \cup
                       {[job |-> jobs_started, yt |-> job.yt, via |-> outcome, sel |-> sel,
                         quality |-> quality_selector]}
                /\ log_text' = IF sel.video # None THEN "info: Best quality found"
                               ELSE IF outcome = "fallback"
                               THEN "warning: Error getting selected streams"
                               ELSE log_text
                /\ job' = Posted(IF logs THEN Logged(got) ELSE got, posts)
                /\ after_queue' = after_queue \o posts
    /\ UNCHANGED disk
    /\ WorkerFrame

\* The exception of the video download swallowed: the audio download follows.
video_downloaded_swallowed(ok) ==
    /\ job.pc = "download_video"
    /\ disk' = IF ok THEN disk \cup {video_path(job)} ELSE disk
    /\ after_queue' = Append(after_queue, "Downloading audio...")
    /\ job' = [job EXCEPT !.video_ok = ok,
                          !.pc = IF job.sel.audio = None THEN "except"
                                 ELSE "download_audio",
                          !.fetches = IF job.sel.audio = None THEN job.fetches
                                      ELSE job.fetches + 1]
    /\ UNCHANGED << log_text, selections >>
    /\ WorkerFrame

\* video_stream.download(output_folder, filename_prefix="video_") returns or
\* raises; on return the status is posted and audio_stream.download is
\* called, which raises at once when audio_stream is None.
video_downloaded(ok) ==
    /\ job.pc = "download_video"
    /\ IF ok
       THEN LET posts == ProgressPosts(job.on_progress.video) \o << "Downloading audio..." >>
                got == [job EXCEPT !.video_ok = TRUE, !.pc = "download_audio",
                                   !.fetches = job.fetches + 1]
            IN  /\ disk' = disk \cup {video_path(job)}
                /\ after_queue' = after_queue \o posts
                /\ job' = Posted(IF job.sel.audio = None
                                 THEN Raised([job EXCEPT !.video_ok = TRUE], "NoneType")
                                 ELSE got, posts)
       ELSE /\ job' = Raised(job, "fetch")
            /\ UNCHANGED << disk, after_queue >>
    /\ UNCHANGED << log_text, selections >>
    /\ WorkerFrame

\* The encoders merge_audio_video runs, in order.
EncoderChain == << "hevc_videotoolbox" >>

\* The value merge_audio_video returns: result.returncode == 0 when
\* subprocess.run returned, False from the except clause when it raised.
merge_result(spawned, returncode) == spawned /\ returncode = 0

\* A non-zero exit code taken for a success.
merge_audio_video_any_exit(returncode) ==
    /\ job.pc = "merge"
    /\ job' = [job EXCEPT !.merge = "ok", !.pc = "remove", !.returncode = returncode]
    /\ disk' = disk \cup {final_path(job)}
    /\ UNCHANGED << log_text, after_queue, selections >>
    /\ WorkerFrame

\* A failed audio download started again.
audio_downloaded_retried(ok, spawned) ==
    /\ job.pc = "download_audio"
    /\ ~ok
    /\ job.fetches < 4
    /\ job' = [job EXCEPT !.fetches = job.fetches + 1]
    /\ UNCHANGED << disk, after_queue, log_text, selections >>
    /\ WorkerFrame

\* audio_stream.download(output_folder, filename_prefix="audio_") returns or
\* raises; on return the status is posted and merge_audio_video starts ffmpeg.
\* spawned: subprocess.run could start the process; when it could not,
\* merge_audio_video returns False and download_in_thread raises.
audio_downloaded(ok, spawned) ==
    /\ job.pc = "download_audio"
    /\ IF ok
       THEN LET posts == ProgressPosts(job.on_progress.audio)
                             \o << "Encoding with VideoToolbox..." >>
                got == [job EXCEPT !.audio_ok = TRUE,
                                   !.encoders = Append(job.encoders, EncoderChain[1]),
                                   !.spawned = spawned]
            IN  /\ disk' = disk \cup {audio_path(job)}
                /\ after_queue' = after_queue \o posts
                /\ job' = Posted(IF spawned
                                 THEN [got EXCEPT !.merge = "running", !.pc = "merge"]
                                 ELSE Raised([got EXCEPT !.merge = "failed"],
                                             "Failed to merge audio and video"), posts)
       ELSE /\ job' = Raised(job, "fetch")
            /\ UNCHANGED << disk, after_queue >>
    /\ UNCHANGED << log_text, selections >>
    /\ WorkerFrame

\* The ffmpeg process exits: merge_audio_video returns returncode == 0, and
\* download_in_thread raises when that is False.
merge_audio_video(returncode) ==
    /\ job.pc = "merge"
    /\ IF merge_result(job.spawned, returncode)
       THEN /\ job' = [job EXCEPT !.merge = "ok", !.pc = "remove", !.returncode = returncode]
            /\ disk' = disk \cup {final_path(job)}
       ELSE /\ job' = Raised([job EXCEPT !.merge = "failed", !.returncode = returncode],
                             "Failed to merge audio and video")
            /\ UNCHANGED disk
    /\ UNCHANGED << log_text, after_queue, selections >>
    /\ WorkerFrame

\* os.remove(video_path); os.remove(audio_path); the success message and the
\* post of download_complete. failing: the file whose os.remove raised, if any.
remove_temp_files(failing) ==
    /\ job.pc = "remove"
    /\ IF failing = "video_"
       THEN /\ job' = Raised(job, "remove")
            /\ UNCHANGED << disk, log_text, after_queue >>
       ELSE IF failing = "audio_"
       THEN /\ job' = Raised([job EXCEPT !.removed = {video_path(job)}], "remove")
            /\ disk' = disk \ {video_path(job)}
            /\ UNCHANGED << log_text, after_queue >>
       ELSE /\ job' = Posted(Logged([job EXCEPT !.pc = "done", !.outcome = "complete",
                                        !.removed = {video_path(job), audio_path(job)}]),
                             << "download_complete" >>)
            /\ disk' = disk \ {video_path(job), audio_path(job)}
            /\ log_text' = "success: Download complete"
            /\ after_queue' = Append(after_queue, "download_complete")
    /\ UNCHANGED selections
    /\ WorkerFrame

\* The direct download: video_stream.download(output_folder) returns or raises.
direct_downloaded(ok) ==
    /\ job.pc = "download_direct"
    /\ IF ok
       THEN LET posts == ProgressPosts(job.on_progress.video) \o << "download_complete" >>
            IN  /\ disk' = disk \cup {FileOf("", job.sel.video)}
                /\ job' = Posted(Logged([job EXCEPT !.video_ok = TRUE, !.pc = "done",
                                                    !.outcome = "complete"]), posts)
                /\ log_text' = "success: Download complete"
                /\ after_queue' = after_queue \o posts
       ELSE /\ job' = Raised(job, "fetch")
            /\ UNCHANGED << disk, log_text, after_queue >>
    /\ UNCHANGED selections
    /\ WorkerFrame

\* The except clause without its post of download_failed.
download_except_silent ==
    /\ job.pc = "except"
    /\ job' = Logged([job EXCEPT !.pc = "done", !.outcome = "failed"])
    /\ log_text' = "error: Download failed"
    /\ UNCHANGED << after_queue, disk, selections >>
    /\ WorkerFrame

\* The except clause: the error message and the post of download_failed.
download_except ==
    /\ job.pc = "except"
    /\ job' = Posted(Logged([job EXCEPT !.pc = "done", !.outcome = "failed"]),
                     << "download_failed" >>)
    /\ log_text' = "error: Download failed"
    /\ after_queue' = Append(after_queue, "download_failed")
    /\ UNCHANGED << disk, selections >>
    /\ WorkerFrame

\* ------------------------------------------------------------------ the UI thread's callbacks
\* update_progress(percentage, message): the bar, the label and, every 10%,
\* a line of the log.
update_progress(percentage) ==
    /\ progress_bar' = percentage
    /\ log_text' = IF percentage % 10 = 0 THEN "info: Progress" ELSE log_text

download_complete ==
    /\ download_button' = "normal"
    /\ status_label' = "Download complete!"
    /\ progress_bar' = 100

download_failed ==
    /\ download_button' = "normal"
    /\ status_label' = "Download failed"
    /\ progress_bar' = 0

\* The UI thread runs the oldest callback posted with self.after(0, ...).
run_after ==
    /\ ui_pc = "idle"
    /\ after_queue # << >>
    /\ after_queue' = Tail(after_queue)
    /\ IF Head(after_queue) = "download_complete"
       THEN download_complete /\ UNCHANGED log_text
       ELSE IF Head(after_queue) = "download_failed"
       THEN download_failed /\ UNCHANGED log_text
       ELSE IF Head(after_queue) = "progress"
       THEN update_progress(100) /\ UNCHANGED << download_button, status_label >>
       ELSE /\ status_label' = Head(after_queue)
            /\ UNCHANGED << download_button, progress_bar, log_text >>
    /\ UNCHANGED << path_in, path_out, progress_in, progress_out, MACOS_GPU, streams_of, url_entry, output_entry, quality_selector,
                    quality_values, audio_selector, audio_values, available_streams,
                    available_audio, ui_pc, ui_yt, job, disk, jobs_started,
                    analyses, edits, selections, catalog_in, result_out >>

\* ------------------------------------------------------------------ specification
Next ==
    \/ \E u \in {0, Blank} \cup Urls : TypeUrl(u)
    \/ \E b \in {0, Blank, Folder} : SetOutput(b)
    \/ \E l \in quality_values : SelectQuality(l)
    \/ \E l \in audio_values : SelectAudio(l)
    \/ \E u \in Urls, yt_ok, q_ok \in BOOLEAN : paste_from_clipboard(u, yt_ok, q_ok)
    \/ \E a_ok \in BOOLEAN : analyze_url_audio(a_ok)
    \/ clear_url
    \/ download_video
    \/ \E ok \in BOOLEAN : open_video(ok)
    \/ \E outcome \in {"selected", "fallback", "raised"} : select_streams(outcome)
    \/ \E ok \in BOOLEAN : video_downloaded(ok)
    \/ \E ok, spawned \in BOOLEAN : audio_downloaded(ok, spawned)
    \/ \E returncode \in {0, 1} : merge_audio_video(returncode)
    \/ \E failing \in {"none", "video_", "audio_"} : remove_temp_files(failing)
    \/ \E ok \in BOOLEAN : direct_downloaded(ok)
    \/ download_except
    \/ run_after

Spec == Init /\ [][Next]_vars

\* The steps of the worker thread.
Worker ==
    \/ \E ok \in BOOLEAN : open_video(ok)
    \/ \E outcome \in {"selected", "fallback", "raised"} : select_streams(outcome)
    \/ \E ok \in BOOLEAN : video_downloaded(ok)
    \/ \E ok, spawned \in BOOLEAN : audio_downloaded(ok, spawned)
    \/ \E returncode \in {0, 1} : merge_audio_video(returncode)
    \/ \E failing \in {"none", "video_", "audio_"} : remove_temp_files(failing)
    \/ \E ok \in BOOLEAN : direct_downloaded(ok)
    \/ download_except

\* The machines the scheduling is followed on: a first video with every kind
\* of stream or with no mp4 audio, a second one with no stream.
LiveMachines ==
    { m \in Machines :
        /\ m.gpu = check_macos_gpu("gpu")
        /\ m.streams[1] \in {VideoItags[2], VideoItags[5]}
        /\ m.streams[2] = VideoItags[1] }

InitLive ==
    /\ InitApp
    /\ \E m \in LiveMachines : streams_of = m.streams /\ MACOS_GPU = m.gpu
    /\ catalog_in = << >>
    /\ result_out = NotCalled
    /\ progress_in = NoTransfer
    /\ progress_out = NoProgress
    /\ path_in = << >>
    /\ path_out = NoPaths

\* The application with its scheduling: a started thread keeps running (the
\* fetches and the encoder end), analyze_url runs to its end, and mainloop
\* runs the callbacks handed to self.after.
SpecLive ==
    /\ InitLive
    /\ [][Next]_vars
    /\ WF_vars(Worker)
    /\ WF_vars(\E a_ok \in BOOLEAN : analyze_url_audio(a_ok))
    /\ WF_vars(run_after)

\* ------------------------------------------------------------------ the selector on its own
\* get_best_streams_fallback applied to every catalog of at most MaxCatalog streams.
InitSelector ==
    /\ InitApp
    /\ MACOS_GPU = check_macos_gpu("gpu")
    /\ streams_of = [u \in Urls |-> {}]
    /\ catalog_in \in Catalogs
    /\ result_out = NotCalled
    /\ progress_in = NoTransfer
    /\ progress_out = NoProgress
    /\ path_in = << >>
    /\ path_out = NoPaths

call_fallback ==
    /\ result_out = NotCalled
    /\ result_out' = [called |-> TRUE, sel |-> get_best_streams_fallback(catalog_in)]
    /\ UNCHANGED << path_in, path_out, progress_in, progress_out, MACOS_GPU, progress_bar, streams_of, url_entry, output_entry, quality_selector,
                    quality_values, audio_selector, audio_values, available_streams,
                    available_audio, download_button, status_label, log_text, ui_pc,
                    ui_yt, job, after_queue, disk, jobs_started, analyses, edits,
                    selections, catalog_in >>

NextSelector == call_fallback

SpecSelector == InitSelector /\ [][NextSelector]_vars

\* ------------------------------------------------------------------ on_download_progress on its own
\* Largest stream.filesize of a transfer, in chunks of the smallest size.
MaxSize == 12

\* on_download_progress applied to the chunks of a transfer of every size up
\* to MaxSize, from every number of bytes still to come.
InitProgress ==
    /\ InitApp
    /\ MACOS_GPU = check_macos_gpu("gpu")
    /\ streams_of = [u \in Urls |-> {}]
    /\ catalog_in = << >>
    /\ result_out = NotCalled
    /\ \E total \in 0..MaxSize, remaining \in 0..MaxSize :
           /\ remaining <= total
           /\ progress_in = [filesize |-> total, bytes_remaining |-> remaining]
    /\ progress_out = NoProgress
    /\ path_in = << >>
    /\ path_out = NoPaths

\* A chunk of n bytes has been written: pytubefix calls the callback with the
\* bytes still to come (an empty stream gets its one call with 0 and 0).
chunk_received(n) ==
    /\ ~progress_out.raised
    /\ n <= progress_in.bytes_remaining
    /\ n > 0 \/ (progress_in.filesize = 0 /\ progress_out.calls = 0)
    /\ progress_in' = [progress_in EXCEPT !.bytes_remaining = progress_in.bytes_remaining - n]
    /\ LET r == on_download_progress(progress_in.filesize, progress_in.bytes_remaining - n)
       IN  progress_out' = [calls |-> progress_out.calls + 1, raised |-> r.raised,
                            percentage |-> r.percentage,
                            previous |-> progress_out.percentage]
    /\ UNCHANGED << path_in, path_out, MACOS_GPU, streams_of, url_entry, output_entry, quality_selector,
                    quality_values, audio_selector, audio_values, available_streams,
                    available_audio, download_button, status_label, progress_bar,
                    log_text, ui_pc, ui_yt, job, after_queue, disk, jobs_started,
                    analyses, edits, selections, catalog_in, result_out >>

NextProgress == \E n \in 0..MaxSize : chunk_received(n)

SpecProgress == InitProgress /\ [][NextProgress]_vars

\* ------------------------------------------------------------------ the paths on their own
\* Largest number of pieces in the file name of a video.
MaxTitle == 3

\* The paths of a merge job for every file name of at most MaxTitle pieces.
InitPath ==
    /\ InitApp
    /\ MACOS_GPU = check_macos_gpu("gpu")
    /\ streams_of = [u \in Urls |-> {}]
    /\ catalog_in = << >>
    /\ result_out = NotCalled
    /\ progress_in = NoTransfer
    /\ progress_out = NoProgress
    /\ \E n \in 0..MaxTitle : path_in \in [1..n -> Pieces]
    /\ path_out = NoPaths

\* The two downloads of a merge job and the path handed to merge_audio_video.
make_paths ==
    /\ ~path_out.called
    /\ LET video == download("Downloads", "video_", path_in)
           audio == download("Downloads", "audio_", path_in)
       IN  path_out' = [called |-> TRUE, video_path |-> video, audio_path |-> audio,
                        final_path |-> merged_path(video)]
    /\ UNCHANGED << path_in, progress_in, progress_out, MACOS_GPU, streams_of, url_entry,
                    output_entry, quality_selector, quality_values, audio_selector,
                    audio_values, available_streams, available_audio, download_button,
                    status_label, progress_bar, log_text, ui_pc, ui_yt, job, after_queue,
                    disk, jobs_started, analyses, edits, selections, catalog_in,
                    result_out >>

NextPath == make_paths

SpecPath == InitPath /\ [][NextPath]_vars

\* ------------------------------------------------------------------ what the claims speak of
StreamsIn(c) == { c[i] : i \in 1..Len(c) }

ProgressiveMp4(c) == { s \in StreamsIn(c) : s.type = "progressive" /\ s.ext = "mp4" }

AdaptiveVideoMp4(c) == { s \in StreamsIn(c) : s.type = "video" /\ s.ext = "mp4" }

AudioMp4(c) == { s \in StreamsIn(c) : s.type = "audio" /\ s.ext = "mp4" }

HighestResolution(S) == { s \in S : \A t \in S : t.res <= s.res }

HighestBitrate(S) == { s \in S : \A t \in S : t.abr <= s.abr }

\* The best progressive mp4 stream of c exists and is below 1080p.
BelowThreshold(c) == ProgressiveMp4(c) # {} /\ \A s \in ProgressiveMp4(c) : s.res < 1080

\* r is the adaptive pair of c: the highest-resolution adaptive mp4 video and
\* the highest-bitrate mp4 audio, to be merged.
IsAdaptivePair(r, c) ==
    /\ r.needs_merge
    /\ r.video \in HighestResolution(AdaptiveVideoMp4(c))
    /\ r.audio \in HighestBitrate(AudioMp4(c))

\* r is the best progressive stream of c on its own.
IsBestProgressive(r, c) ==
    /\ ~r.needs_merge
    /\ r.video \in HighestResolution(ProgressiveMp4(c))
    /\ r.audio = None

InQueue(cb) == \E i \in 1..Len(after_queue) : after_queue[i] = cb

\* The encoders of the fallback chain the specification describes.
FallbackChain == << "hevc_videotoolbox", "software HEVC", "software H.264" >>

\* ------------------------------------------------------------------ claims
\* C1: in a two-stream job merge_audio_video is started only after the video
\* fetch and the audio fetch have both returned successfully; a job whose
\* fetch raised never runs the encoder; no encoder runs while a fetch of the
\* job is in progress.
C1_MergeOnlyAfterBothFetches ==
    /\ (job.encoders # << >> \/ job.merge # "none")
           => (job.sel.needs_merge /\ job.video_ok /\ job.audio_ok)
    /\ job.pc \in {"download_video", "download_audio"}
           => (job.encoders = << >> /\ job.merge = "none")
    /\ job.merge = "running" => job.pc = "merge"

\* C1 witness: the encoder of a two-stream job is running, both files fetched.
C1_Witness ==
    /\ job.pc = "merge"
    /\ job.merge = "running"
    /\ job.sel.needs_merge
    /\ {video_path(job), audio_path(job)} \subseteq disk

\* C2: the encode step fails only after hardware HEVC, software HEVC and
\* software H.264 have been tried, in that order.
C2_FailsOnlyAfterThreeStages ==
    (job.pc = "done" /\ job.outcome = "failed" /\ job.merge = "failed")
        => job.encoders = FallbackChain

\* C3: the temporary files of a merge job are deleted if and only if the merge
\* succeeded: after a successful merge both are removed and the job reports
\* success; after a failed merge the job fails and both are still on disk.
C3_TempFilesDeletedIffMerged ==
    (job.pc = "done" /\ job.sel.needs_merge /\ job.sel.video # None)
        => /\ job.merge = "ok"
                  => (job.removed = {video_path(job), audio_path(job)}
                      /\ job.outcome = "complete")
           /\ job.merge # "ok" => job.removed = {}
           /\ job.merge = "failed"
                  => (job.outcome = "failed"
                      /\ {video_path(job), audio_path(job)} \subseteq disk)

\* C4: when the best progressive mp4 stream is below 1080p and the catalog has
\* an adaptive mp4 video and an mp4 audio stream, the fallback selector
\* returns the highest-resolution adaptive video with the highest-bitrate
\* audio and needs_merge = true.
C4_AdaptivePairBelowThreshold ==
    ( /\ result_out.called
      /\ BelowThreshold(catalog_in)
      /\ AdaptiveVideoMp4(catalog_in) # {}
      /\ AudioMp4(catalog_in) # {} )
        => IsAdaptivePair(result_out.sel, catalog_in)

\* C4 witness: progressive {720p, 480p}, adaptive {2160p}, audio {128kbps}
\* gives 2160p + 128kbps.
C4_Witness ==
    /\ result_out.called
    /\ catalog_in = CatalogOf({1, 2, 5, 8}, 1)
    /\ result_out.sel.needs_merge
    /\ result_out.sel.video.res = 2160
    /\ result_out.sel.audio.abr = 128

\* C5: when the catalog has a progressive mp4 stream of 1080p or more, the
\* fallback selector returns the highest-resolution progressive stream, no
\* audio stream and needs_merge = false, whatever adaptive streams exist.
C5_ProgressiveAtThreshold ==
    (result_out.called /\ \E s \in ProgressiveMp4(catalog_in) : s.res >= 1080)
        => IsBestProgressive(result_out.sel, catalog_in)

\* C5 witness: a 1080p progressive stream beside a 2160p adaptive pair.
C5_Witness ==
    /\ result_out.called
    /\ catalog_in = CatalogOf({3, 5, 8}, 1)
    /\ result_out.sel.video.itag = 3
    /\ ~result_out.sel.needs_merge

\* C6: when the best progressive stream is below 1080p and the adaptive video
\* or the audio is missing, the fallback selector returns the best
\* progressive stream with needs_merge = false.
C6_NoPairFallsBackToProgressive ==
    ( /\ result_out.called
      /\ BelowThreshold(catalog_in)
      /\ (AdaptiveVideoMp4(catalog_in) = {} \/ AudioMp4(catalog_in) = {}) )
        => IsBestProgressive(result_out.sel, catalog_in)

\* C6 witness: a lone adaptive video beside 480p and 720p progressive streams.
C6_Witness ==
    /\ result_out.called
    /\ catalog_in = CatalogOf({1, 2, 5}, 1)
    /\ result_out.sel.video.itag = 2
    /\ result_out.sel.audio = None
    /\ ~result_out.sel.needs_merge

\* C7: for an empty catalog the fallback selector yields no video stream and
\* the job that called it ends failed, the failure shown to the user, with no
\* fetch, no encoder process and no second attempt.
C7_EmptyCatalogFails ==
    (job.via = "fallback" /\ streams(job.yt) = << >>)
        => /\ job.sel.video = None
           /\ job.pc \in {"except", "done"}
           /\ job.selects = 1
           /\ job.fetches = 0
           /\ ~job.video_ok /\ ~job.audio_ok
           /\ job.encoders = << >>
           /\ job.pc = "done"
                  => /\ job.outcome = "failed"
                     /\ InQueue("download_failed") \/ status_label = "Download failed"

\* C7 witness: such a job has ended and the UI shows the failure.
C7_Witness ==
    /\ job.via = "fallback"
    /\ streams(job.yt) = << >>
    /\ job.pc = "done"
    /\ status_label = "Download failed"
    /\ download_button = "normal"

\* C8: for a catalog with no progressive mp4 stream but an adaptive mp4 video
\* and an mp4 audio stream, the fallback selector returns that pair with
\* needs_merge = true.
C8_AdaptivePairWithoutProgressive ==
    ( /\ result_out.called
      /\ ProgressiveMp4(catalog_in) = {}
      /\ AdaptiveVideoMp4(catalog_in) # {}
      /\ AudioMp4(catalog_in) # {} )
        => IsAdaptivePair(result_out.sel, catalog_in)

\* C9: every selection handed to a download job has needs_merge true if and
\* only if an audio stream is present, and a progressive video when
\* needs_merge is false.
C9_SelectionInvariant ==
    \A r \in selections :
        r.sel.video # None
            => /\ r.sel.needs_merge <=> r.sel.audio # None
               /\ ~r.sel.needs_merge => r.sel.video.type = "progressive"

Widgets == {"log_text", "quality_selector", "audio_selector", "status_label", "progress_bar"}

\* The worker thread of the job is running.
InFlight == job.pc \notin {"idle", "done"}

\* The callbacks that end a job.
FinalCallbacks == {"download_complete", "download_failed"}

\* How many of the callbacks the job has posted are in S.
PostedIn(S) == Cardinality({ i \in 1..Len(job.posted) : job.posted[i] \in S })

\* C11: the worker thread of a download never reads or writes a widget
\* itself: every access to the log, the selectors, the labels or the progress
\* bar made for download_in_thread runs in the UI thread, posted with after.
C11_WorkerNeverTouchesWidgets ==
    job.touched \cap Widgets = {}

\* C12: in a two-stream job the video fetch and the audio fetch run side by
\* side: while the video transfer is in progress the audio transfer has been
\* started as well, without waiting for the video file.
C12_FetchesRunConcurrently ==
    (job.pc = "download_video" /\ job.sel.needs_merge /\ job.sel.audio # None)
        => job.fetches = 2

\* C13: at most one download job is in flight at any time, so no two jobs
\* read or write the same video_<name> / audio_<name> files together: while a
\* worker thread runs, and until its last callback has run, the Download
\* button is disabled, and no other action starts a worker.
C13_OneJobAtATime ==
    /\ InFlight => download_button = "disabled"
    /\ (\E cb \in FinalCallbacks : InQueue(cb)) => (~InFlight /\ download_button = "disabled")
    /\ job.pc = "start" => (job.posted = << >> /\ after_queue = << >>)

\* C13 witness: a second job is fetching into the temporary file name the
\* first job left on disk.
C13_Witness ==
    /\ jobs_started = 2
    /\ job.pc = "download_video"
    /\ video_path(job) \in disk
    /\ download_button = "disabled"

\* The encoder e has been invoked by the job.
Invoked(e) == \E i \in 1..Len(job.encoders) : job.encoders[i] = e

\* C14: when the record computed at startup shows no hardware encoder or no
\* HEVC support, the merge step never invokes hevc_videotoolbox.
C14_HardwareStageGated ==
    (~MACOS_GPU.videotoolbox \/ ~MACOS_GPU.hevc_encoding \/ ~MACOS_GPU.available)
        => ~Invoked("hevc_videotoolbox")

\* C15: merge_audio_video returns true exactly when the ffmpeg process ran
\* and exited with status 0; for a non-zero status or a process that could
\* not be started it returns false and raises nothing, the exception of the
\* job being the one download_in_thread raises on a false result.
C15_SuccessIffExitZero ==
    /\ job.merge = "ok" <=> (job.spawned /\ job.returncode = 0)
    /\ job.merge = "failed"
           => /\ ~job.spawned \/ job.returncode \notin {0, NoExit}
              /\ job.error = "Failed to merge audio and video"
    /\ job.merge = "running" => (job.spawned /\ job.returncode = NoExit)
    /\ job.returncode # NoExit => job.spawned

\* C15 witness: the encoder exited with status 0 and the merged file is there.
C15_Witness ==
    /\ job.merge = "ok"
    /\ job.returncode = 0
    /\ final_path(job) \in disk

\* C16: nothing in a job is tried again: the selection is made once, each
\* stream is fetched at most once, the encoder is started at most once, and a
\* job whose fetch raised goes straight to the failed outcome with no encoder
\* run and no temporary file removed.
C16_NoRetry ==
    /\ job.selects <= 1
    /\ job.fetches <= (IF job.sel.needs_merge THEN 2 ELSE 1)
    /\ Len(job.encoders) <= 1
    /\ job.error = "fetch"
           => /\ job.pc \in {"except", "done"}
              /\ job.pc = "done" => job.outcome = "failed"
              /\ job.encoders = << >> /\ job.merge = "none"
              /\ job.removed = {}
              /\ job.video_ok => video_path(job) \in disk
              /\ final_path(job) \in disk => jobs_started > 1

\* C16 witness: the audio fetch of a job raised after its video was fetched;
\* the job has failed and the video file is still there.
C16_Witness ==
    /\ job.error = "fetch"
    /\ job.video_ok
    /\ job.pc = "done"
    /\ video_path(job) \in disk
    /\ status_label = "Download failed"

\* The fetches of the job that have returned.
FetchesDone == (IF job.video_ok THEN 1 ELSE 0) + (IF job.audio_ok THEN 1 ELSE 0)

\* C17: every stream a job fetches reports its progress: each finished
\* video or audio download has made on_download_progress post an update to
\* the UI thread, also when the stream comes from the maps analyze_url cached.
C17_EveryFetchReportsProgress ==
    PostedIn({"progress"}) >= FetchesDone

\* p <= q for two fractions with positive denominators.
AtMost(p, q) == p.num * q.den <= q.num * p.den

\* C18: for every stream size and every number of bytes still to come, the
\* callback does not fail and computes 100 * (total - bytes_remaining) / total,
\* a value between 0 and 100 that is 100 when nothing is left and never
\* decreases from one chunk to the next.
C18_ProgressIsFraction ==
    progress_out.calls > 0
        => /\ ~progress_out.raised
           /\ progress_out.percentage.num * progress_in.filesize
                  = 100 * (progress_in.filesize - progress_in.bytes_remaining)
                        * progress_out.percentage.den
           /\ AtMost(Fraction(0, 1), progress_out.percentage)
           /\ AtMost(progress_out.percentage, Fraction(100, 1))
           /\ progress_in.bytes_remaining = 0
                  => (AtMost(progress_out.percentage, Fraction(100, 1))
                      /\ AtMost(Fraction(100, 1), progress_out.percentage))
           /\ AtMost(progress_out.previous, progress_out.percentage)

\* How many callbacks the job has posted after its last post of cb.
PostsSince(cb) ==
    Len(job.posted) - Max({0} \cup { i \in 1..Len(job.posted) : job.posted[i] = cb })

\* C19: while the encoder of a merge job runs, its progress output is read
\* line by line and progress events reach the UI: when the process has
\* exited, the job has posted something since the encode started.
C19_EncodeProgressDelivered ==
    (job.spawned /\ job.returncode # NoExit /\ job.pc \in {"remove", "except"})
        => PostsSince("Encoding with VideoToolbox...") > 0

\* What holds of the callbacks of a job in every state: a running worker has
\* posted neither download_complete nor download_failed; an ended one has
\* posted exactly one of them, last, the one of its outcome; the button is
\* disabled while the worker runs and until that callback has run.
JobReportsOnce ==
    /\ InFlight => (PostedIn(FinalCallbacks) = 0 /\ download_button = "disabled")
    /\ job.pc = "done"
           => /\ PostedIn(FinalCallbacks) = 1
              /\ job.posted[Len(job.posted)] =
                     (IF job.outcome = "complete" THEN "download_complete" ELSE "download_failed")
              /\ download_button = "disabled"
                     <=> \E cb \in FinalCallbacks : InQueue(cb)
    /\ job.pc = "idle" => download_button = "normal"

\* C20: every job started by download_video ends by posting exactly one of
\* download_complete and download_failed, whatever a fetch, the selector, the
\* encoder or the removal of the temporary files raises; the button is
\* disabled from the click until that callback runs and is enabled again
\* afterwards.
C20_JobAlwaysReports ==
    /\ []JobReportsOnce
    /\ (download_button = "disabled") ~> (download_button = "normal")

\* C20 witness: the removal of a temporary file raised after a successful
\* merge; the job has posted download_failed and the button is enabled again.
C20_Witness ==
    /\ job.pc = "done"
    /\ job.error = "remove"
    /\ PostedIn({"download_failed"}) = 1
    /\ status_label = "Download failed"
    /\ download_button = "normal"

\* The progressive streams of the catalog c, of any container.
Progressive(c) == { s \in StreamsIn(c) : s.type = "progressive" }

\* s is the best of the streams S, or None when S is empty.
BestOrNone(s, best, S) == IF S = {} THEN s = None ELSE s \in best

\* The selection sel follows what the selectors and the cached maps show,
\* for a job on the catalog c.
FollowsSelection(sel, c) ==
    IF quality_selector \in DOMAIN available_streams
    THEN LET entry == available_streams[quality_selector]
         IN  IF entry.type = "adaptive"
             THEN /\ sel.video = entry.stream
                  /\ sel.needs_merge
                  /\ IF audio_selector \in DOMAIN available_audio
                     THEN sel.audio = available_audio[audio_selector]
                     ELSE BestOrNone(sel.audio, HighestBitrate(AudioMp4(c)), AudioMp4(c))
             ELSE sel = Selection(entry.stream, None, FALSE)
    ELSE BestOrNone(sel.video, HighestResolution(Progressive(c)), Progressive(c))

\* C21: get_selected_streams follows the user's selection: an adaptive label
\* gives its video with needs_merge and the audio of the selected audio label
\* (the highest-bitrate mp4 audio when that label is not cached); a progressive
\* label gives its video alone; a label that is not cached gives the
\* highest-resolution progressive stream; and when the try block raises the
\* result is the one of get_best_streams_fallback.
C21_SelectionFollowsUser ==
    [][ (job.pc = "select" /\ job'.selects = job.selects + 1)
            => /\ job'.via = "selected" => FollowsSelection(job'.sel, streams(job.yt))
               /\ job'.via = "fallback"
                      => job'.sel = get_best_streams_fallback(streams(job.yt)) ]_vars

\* C21 witness: a job got the adaptive video of the selected label and the
\* audio of the selected audio label.
C21_Witness ==
    /\ job.via = "selected"
    /\ job.pc = "download_video"
    /\ quality_selector \in DOMAIN available_streams
    /\ job.sel.video = available_streams[quality_selector].stream
    /\ job.sel.video.type = "video"
    /\ audio_selector \in DOMAIN available_audio
    /\ job.sel.audio = available_audio[audio_selector]
    /\ job.sel.needs_merge

\* C22: every stream a job fetches is a stream of the video of the URL that
\* was in the URL field at the click, never one cached by an analysis of
\* another URL.
C22_DownloadsClickedUrl ==
    /\ job.video_ok => job.sel.video.vid = job.url
    /\ job.audio_ok => job.sel.audio.vid = job.url

\* C23: the streams of a job are fixed by what the selectors and the cached
\* maps showed at the click on Download: nothing the UI thread does while the
\* job is in flight changes the selection the worker gets.
C23_SelectionFixedAtClick ==
    job.via = "selected" => job.sel = job.at_click

\* C24: a progressive stream is never merged: whenever a job has called
\* merge_audio_video, the video it fetched is an adaptive video-only stream,
\* also when the quality selector shows 'Best Available'.
C24_ProgressiveNeverMerged ==
    job.encoders # << >> => job.sel.video.type = "video"

\* The stem st without a leading prefix.
WithoutPrefix(st, prefix) == IF st # << >> /\ Head(st) = prefix THEN Tail(st) ELSE st

\* C25: the merged output is in the directory of the temporary video file;
\* its name is the original stem, the temporary stem without its leading
\* 'video_', followed by '_HEVC.mp4', so that a 'video_' inside the title is
\* kept; and it is neither of the two temporary paths.
C25_OutputKeepsTitle ==
    path_out.called
        => /\ path_out.final_path.parent = path_out.video_path.parent
           /\ path_out.final_path.stem
                  = WithoutPrefix(path_out.video_path.stem, "video_") \o << "_HEVC" >>
           /\ path_out.final_path.suffix = ".mp4"
           /\ path_out.final_path # path_out.video_path
           /\ path_out.final_path # path_out.audio_path

\* The input download_video rejects: an empty URL or output folder once trimmed.
BadInput == strip(url_entry) = 0 \/ strip(output_entry) = 0

\* The lines download_video logs when it rejects its input.
Rejections == {"error: Please enter a valid URL", "error: Please select an output folder"}

\* C26: with an empty trimmed URL or output folder no worker thread is
\* started, and the click that logs the error leaves the button enabled and
\* the job, the status label, the progress bar and the cached maps unchanged.
C26_BadInputRejected ==
    [][ /\ BadInput => /\ jobs_started' = jobs_started
                       /\ (job'.pc = "start" => job.pc = "start")
        /\ (log_text' \in Rejections /\ log_text' # log_text)
               => /\ BadInput
                  /\ log_text' = (IF strip(url_entry) = 0
                                  THEN "error: Please enter a valid URL"
                                  ELSE "error: Please select an output folder")
                  /\ download_button = "normal"
                  /\ UNCHANGED << job, jobs_started, download_button, status_label,
                                  progress_bar, available_streams, available_audio,
                                  after_queue, disk, url_entry, output_entry >> ]_vars

\* C26 witness: a click with a URL of white space has logged the error and
\* nothing was started.
C26_Witness ==
    /\ url_entry = Blank
    /\ log_text = "error: Please enter a valid URL"
    /\ job.pc = "idle"
    /\ jobs_started = 0
    /\ download_button = "normal"

====
